---- MODULE Spec2Model ----
(***************************************************************************)
(* Model of the backtest core of opentrade-bot:                            *)
(*   core/portfolio.py  class Portfolio (cash, position, trade_log; buy,   *)
(*                      sell, value, _to_scalar)                           *)
(*   core/trader.py     run_backtest (the row loop with last_signal, the   *)
(*                      final valuation)                                   *)
(*                                                                         *)
(* Numbers.  cash, position and prices are Python floats.  A float is      *)
(* modelled as a binary floating-point number with a MantBits-bit          *)
(* significand and round-to-nearest-even, written <<m, e>> for m * 2^e     *)
(* with m odd (or <<0, 0>> for zero), so that equal numbers are equal      *)
(* tuples.  The exponent range is not modelled: the inputs are bounded, no *)
(* result comes near the overflow or underflow threshold of binary64, and  *)
(* inf/nan prices are not among the inputs.  -0.0 is identified with 0.0   *)
(* (they compare equal in every test the program makes).                   *)
(***************************************************************************)
EXTENDS Integers, Sequences, FiniteSets, TLC

VARIABLES
    portfolio,        \* the Portfolio object: [cash, position, trade_log]
    initial_capital,  \* run_backtest's argument / Portfolio's constructor argument
    last_signal,      \* run_backtest's local last_signal
    df,               \* the rows of df that iterrows() has yielded so far
    pc,               \* where the program is: "loop", "done", "failed", "api"
    final_value,      \* run_backtest's final_value (None until computed)
    err,              \* the exception that ended the last call ("none" if it returned)
    lastCall,         \* the last Portfolio method called: [op, price, date]
    ret               \* the value returned by the last Portfolio.value call

vars == <<portfolio, initial_capital, last_signal, df, pc, final_value, err, lastCall, ret>>

(***************************************************************************)
(* Bounds of the model.                                                    *)
(***************************************************************************)
MantBits == 13    \* significand width of the modelled float (binary64 has 53)
MaxRows == 3      \* longest DataFrame of the general run
MaxCalls == 3     \* most trade records a sequence of direct Portfolio calls appends
MaxRunRows == 5   \* longest DataFrame of the runs over bare +1 / -1 / 0 signals

\* Python's None where a float is expected (no float is the empty tuple)
None == <<>>

(***************************************************************************)
(* Floating point.                                                         *)
(***************************************************************************)
RECURSIVE Pow2(_)
Pow2(k) == IF k <= 0 THEN 1 ELSE 2 * Pow2(k - 1)

RECURSIVE BitLen(_)
BitLen(n) == IF n = 0 THEN 0 ELSE 1 + BitLen(n \div 2)

Abs(n) == IF n < 0 THEN -n ELSE n

Sgn(n) == IF n < 0 THEN -1 ELSE IF n > 0 THEN 1 ELSE 0

RECURSIVE Canon(_, _)
Canon(m, e) ==
    IF m = 0 THEN <<0, 0>>
    ELSE IF m % 2 = 0 THEN Canon(m \div 2, e + 1)
    ELSE <<m, e>>

\* The float nearest to mag * 2^e (ties to even), mag >= 0.  sticky says that
\* the exact value lies strictly above mag * 2^e (below (mag + 1) * 2^e); a
\* caller that sets it passes at least MantBits + 1 bits.
RoundMag(mag, e, sticky) ==
    LET drop == BitLen(mag) - MantBits IN
    IF drop <= 0 THEN Canon(mag, e)
    ELSE LET q    == mag \div Pow2(drop)
             rem  == mag % Pow2(drop)
             half == Pow2(drop - 1)
             up   == \/ rem > half
                     \/ rem = half /\ (sticky \/ q % 2 = 1)
         IN  Canon(IF up THEN q + 1 ELSE q, e + drop)

Neg(a) == <<-a[1], a[2]>>

WithSign(s, a) == IF s < 0 THEN Neg(a) ELSE a

\* float(n) for a Python int n
FromInt(n) == WithSign(Sgn(n), RoundMag(Abs(n), 0, FALSE))

\* a * b
FMul(a, b) ==
    WithSign(Sgn(a[1]) * Sgn(b[1]), RoundMag(Abs(a[1]) * Abs(b[1]), a[2] + b[2], FALSE))

\* a / b for b # 0
FDiv(a, b) ==
    IF a[1] = 0 THEN <<0, 0>>
    ELSE LET sh == MantBits - BitLen(Abs(a[1]))
             n  == Abs(a[1]) * Pow2(sh) * Pow2(MantBits + 1)
             d  == Abs(b[1])
         IN  WithSign(Sgn(a[1]) * Sgn(b[1]),
                      RoundMag(n \div d, a[2] - sh - (MantBits + 1) - b[2], n % d # 0))

\* a + b
FAdd(a, b) ==
    IF a[1] = 0 THEN b
    ELSE IF b[1] = 0 THEN a
    ELSE LET \* exponent of the leading bit of each operand
             ta == a[2] + BitLen(Abs(a[1]))
             tb == b[2] + BitLen(Abs(b[1]))
             hi == IF ta >= tb THEN a ELSE b
             lo == IF ta >= tb THEN b ELSE a
             gap == hi[2] - lo[2]
         IN  IF Abs(ta - tb) > MantBits + 2 THEN hi
             ELSE IF gap >= 0
                  THEN LET s == hi[1] * Pow2(gap) + lo[1]
                       IN  WithSign(Sgn(s), RoundMag(Abs(s), lo[2], FALSE))
                  ELSE LET s == hi[1] + lo[1] * Pow2(-gap)
                       IN  WithSign(Sgn(s), RoundMag(Abs(s), hi[2], FALSE))

IsZero(a) == a[1] = 0       \* a == 0
IsPos(a) == a[1] > 0        \* a > 0
IsNeg(a) == a[1] < 0        \* a < 0

Zero == <<0, 0>>


(***************************************************************************)
(* Values the callers hand in.  A price-like or signal-like value is       *)
(* [kind, vals]: a plain number (kind "number", one element), a pandas     *)
(* Series, a numpy ndarray or a Python list of the elements vals, NaN      *)
(* (kind "nan") or None (kind "NoneType").  The element of a number is a   *)
(* float (a price) or an integer (a signal); the elements of a container   *)
(* of prices are floats, those of a container of signals are scalar        *)
(* signal values (numbers or NaN).                                         *)
(***************************************************************************)
Num(x) == [kind |-> "number", vals |-> <<x>>]
Series(xs) == [kind |-> "Series", vals |-> xs]
NdArray(xs) == [kind |-> "ndarray", vals |-> xs]
List(xs) == [kind |-> "list", vals |-> xs]
NaN == [kind |-> "nan", vals |-> <<>>]
NoneValue == [kind |-> "NoneType", vals |-> <<>>]

(***************************************************************************)
(* core/portfolio.py                                                       *)
(***************************************************************************)
\* the constructor called without the argument: cash keeps its default 100000
Portfolio_default_cash(capital) ==
    [cash |-> FromInt(100000), position |-> Zero, trade_log |-> <<>>]

\* Portfolio.__init__
Portfolio(capital) ==
    [cash |-> FromInt(capital), position |-> Zero, trade_log |-> <<>>]

\* _to_scalar taking the first element of a longer Series or ndarray
_to_scalar_first_element(v) ==
    IF v.kind \in {"Series", "ndarray"}
    THEN IF Len(v.vals) >= 1 THEN [raised |-> "none", val |-> v.vals[1]]
         ELSE [raised |-> "ValueError", val |-> None]
    ELSE IF v.kind = "number"
    THEN [raised |-> "none", val |-> v.vals[1]]
    ELSE [raised |-> "ValueError", val |-> None]

\* Portfolio._to_scalar: [raised, val]
_to_scalar(v) ==
    IF v.kind = "Series"
    THEN IF Len(v.vals) = 1 THEN [raised |-> "none", val |-> v.vals[1]]
         ELSE [raised |-> "ValueError", val |-> None]
    ELSE IF v.kind = "ndarray"
    THEN IF Len(v.vals) = 1 THEN [raised |-> "none", val |-> v.vals[1]]
         ELSE [raised |-> "ValueError", val |-> None]
    ELSE IF v.kind = "number"
    THEN [raised |-> "none", val |-> v.vals[1]]
    ELSE \* float(v) of a list or of None raises TypeError, re-raised as ValueError
         [raised |-> "ValueError", val |-> None]

\* buy with "self.trade_log = [(date, 'BUY', p)]" for the append
buy_resets_log(self, price, date) ==
    LET c == _to_scalar(price) IN
    IF c.raised # "none" THEN [self |-> self, raised |-> c.raised]
    ELSE IF IsZero(self.position)
    THEN IF IsZero(c.val)
         THEN [self |-> self, raised |-> "ZeroDivisionError"]
         ELSE [self |-> [cash |-> Zero,
                         position |-> FDiv(self.cash, c.val),
                         trade_log |-> << <<date, "BUY", c.val>> >>],
               raised |-> "none"]
    ELSE [self |-> self, raised |-> "none"]

\* buy with "self.cash = 0.0" left out
buy_keeps_cash(self, price, date) ==
    LET c == _to_scalar(price) IN
    IF c.raised # "none" THEN [self |-> self, raised |-> c.raised]
    ELSE IF IsZero(self.position)
    THEN IF IsZero(c.val)
         THEN [self |-> self, raised |-> "ZeroDivisionError"]
         ELSE [self |-> [cash |-> self.cash,
                         position |-> FDiv(self.cash, c.val),
                         trade_log |-> Append(self.trade_log, <<date, "BUY", c.val>>)],
               raised |-> "none"]
    ELSE [self |-> self, raised |-> "none"]

\* buy with the test "if self.position == 0" left out
buy_unguarded(self, price, date) ==
    LET c == _to_scalar(price) IN
    IF c.raised # "none" THEN [self |-> self, raised |-> c.raised]
    ELSE IF IsZero(c.val)
    THEN [self |-> self, raised |-> "ZeroDivisionError"]
    ELSE [self |-> [cash |-> Zero,
                    position |-> FDiv(self.cash, c.val),
                    trade_log |-> Append(self.trade_log, <<date, "BUY", c.val>>)],
          raised |-> "none"]

\* Portfolio.buy: [self, raised], self the object after the call
buy(self, price, date) ==
    LET c == _to_scalar(price) IN
    IF c.raised # "none" THEN [self |-> self, raised |-> c.raised]
    ELSE IF IsZero(self.position)
    THEN IF IsZero(c.val)
         THEN [self |-> self, raised |-> "ZeroDivisionError"]
         ELSE [self |-> [cash |-> Zero,
                         position |-> FDiv(self.cash, c.val),
                         trade_log |-> Append(self.trade_log, <<date, "BUY", c.val>>)],
               raised |-> "none"]
    ELSE [self |-> self, raised |-> "none"]

\* sell with "self.position = 0.0" left out
sell_keeps_position(self, price, date) ==
    LET c == _to_scalar(price) IN
    IF c.raised # "none" THEN [self |-> self, raised |-> c.raised]
    ELSE IF IsPos(self.position)
    THEN [self |-> [cash |-> FMul(self.position, c.val),
                    position |-> self.position,
                    trade_log |-> Append(self.trade_log, <<date, "SELL", c.val>>)],
          raised |-> "none"]
    ELSE [self |-> self, raised |-> "none"]

\* sell with the test "self.position >= 0" in place of "self.position > 0"
sell_when_flat(self, price, date) ==
    LET c == _to_scalar(price) IN
    IF c.raised # "none" THEN [self |-> self, raised |-> c.raised]
    ELSE IF ~IsNeg(self.position)
    THEN [self |-> [cash |-> FMul(self.position, c.val),
                    position |-> Zero,
                    trade_log |-> Append(self.trade_log, <<date, "SELL", c.val>>)],
          raised |-> "none"]
    ELSE [self |-> self, raised |-> "none"]

\* sell with the fill valued at the price of the BUY record it closes
sell_at_entry_price(self, price, date) ==
    LET c == _to_scalar(price) IN
    IF c.raised # "none" THEN [self |-> self, raised |-> c.raised]
    ELSE IF IsPos(self.position)
    THEN [self |-> [cash |-> FMul(self.position,
                                  self.trade_log[Len(self.trade_log)][3]),
                    position |-> Zero,
                    trade_log |-> Append(self.trade_log, <<date, "SELL", c.val>>)],
          raised |-> "none"]
    ELSE [self |-> self, raised |-> "none"]

\* sell with the position test ahead of the coercion of the price
sell_guard_first(self, price, date) ==
    IF IsPos(self.position)
    THEN LET c == _to_scalar(price) IN
         IF c.raised # "none" THEN [self |-> self, raised |-> c.raised]
         ELSE [self |-> [cash |-> FMul(self.position, c.val),
                         position |-> Zero,
                         trade_log |-> Append(self.trade_log, <<date, "SELL", c.val>>)],
               raised |-> "none"]
    ELSE [self |-> self, raised |-> "none"]

\* Portfolio.sell: [self, raised]
sell(self, price, date) ==
    LET c == _to_scalar(price) IN
    IF c.raised # "none" THEN [self |-> self, raised |-> c.raised]
    ELSE IF IsPos(self.position)
    THEN [self |-> [cash |-> FMul(self.position, c.val),
                    position |-> Zero,
                    trade_log |-> Append(self.trade_log, <<date, "SELL", c.val>>)],
          raised |-> "none"]
    ELSE [self |-> self, raised |-> "none"]

\* value that adds the units held instead of their worth
value_ignores_price(self, current_price) ==
    LET c == _to_scalar(current_price) IN
    IF c.raised # "none" THEN [self |-> self, ret |-> None, raised |-> c.raised]
    ELSE [self |-> self,
          ret |-> FAdd(self.cash, self.position),
          raised |-> "none"]

\* Portfolio.value: [self, ret, raised]
value(self, current_price) ==
    LET c == _to_scalar(current_price) IN
    IF c.raised # "none" THEN [self |-> self, ret |-> None, raised |-> c.raised]
    ELSE [self |-> self,
          ret |-> FAdd(self.cash, FMul(self.position, c.val)),
          raised |-> "none"]

(***************************************************************************)
(* Inputs.                                                                 *)
(***************************************************************************)
CapitalInputs == {100000, 0, -100000}

F100 == FromInt(100)
F90 == FromInt(90)
F11 == FromInt(11)

\* prices handed to Portfolio methods called directly
PriceInputs ==
    {Num(F100), Num(F90), Num(F11), Num(Zero), Num(FromInt(-100)),
     Series(<<F100>>), Series(<<F100, F90>>), NdArray(<<F90>>), NdArray(<<>>),
     NdArray(<<F90, F11>>), List(<<F100>>), List(<<F100, F90>>), NoneValue}

DateInputs == {1, 2}

\* no date (value takes none)
NoDate == 0

NoCall == [op |-> "none", price |-> NoneValue, date |-> NoDate]

(***************************************************************************)
(* A client calling the Portfolio methods directly, in any order.          *)
(***************************************************************************)
LedgerInit ==
    /\ initial_capital \in CapitalInputs
    /\ portfolio = Portfolio(initial_capital)
    /\ last_signal = 0
    /\ df = <<>>
    /\ pc = "api"
    /\ final_value = None
    /\ err = "none"
    /\ lastCall = NoCall
    /\ ret = None

call_buy(price, date) ==
    /\ pc = "api"
    /\ LET r == buy(portfolio, price, date) IN
       /\ portfolio' = r.self
       /\ err' = r.raised
    /\ lastCall' = [op |-> "buy", price |-> price, date |-> date]
    /\ ret' = None
    /\ UNCHANGED <<initial_capital, last_signal, df, pc, final_value>>

call_sell(price, date) ==
    /\ pc = "api"
    /\ LET r == sell(portfolio, price, date) IN
       /\ portfolio' = r.self
       /\ err' = r.raised
    /\ lastCall' = [op |-> "sell", price |-> price, date |-> date]
    /\ ret' = None
    /\ UNCHANGED <<initial_capital, last_signal, df, pc, final_value>>

call_value(price) ==
    /\ pc = "api"
    /\ LET r == value(portfolio, price) IN
       /\ portfolio' = r.self
       /\ ret' = r.ret
       /\ err' = r.raised
    /\ lastCall' = [op |-> "value", price |-> price, date |-> NoDate]
    /\ UNCHANGED <<initial_capital, last_signal, df, pc, final_value>>

\* the model explores call sequences that append fewer than MaxCalls records
LedgerBound == Len(portfolio.trade_log) < MaxCalls

LedgerNext ==
    \/ \E price \in PriceInputs, date \in DateInputs : LedgerBound /\ call_buy(price, date)
    \/ \E price \in PriceInputs, date \in DateInputs : LedgerBound /\ call_sell(price, date)
    \/ \E price \in PriceInputs : LedgerBound /\ call_value(price)

LedgerSpec == LedgerInit /\ [][LedgerNext]_vars

(***************************************************************************)
(* core/trader.py                                                          *)
(***************************************************************************)
\* _scalar_signal taking the first element of a longer sequence
_scalar_signal_first_element(val) ==
    IF val.kind \in {"Series", "ndarray", "list"}
    THEN IF Len(val.vals) >= 1 THEN val.vals[1] ELSE Num(0)
    ELSE val

\* run_backtest._scalar_signal: the unwrapped element, 0 for a longer sequence
_scalar_signal(val) ==
    IF val.kind = "Series"
    THEN IF Len(val.vals) = 1 THEN val.vals[1] ELSE Num(0)
    ELSE IF val.kind \in {"ndarray", "list"}
    THEN IF Len(val.vals) = 1 THEN val.vals[1] ELSE Num(0)
    ELSE val

\* pd.isna of a scalar
isna(s) == s.kind \in {"nan", "NoneType"}

\* the s of the loop body: _scalar_signal(row["Signal"]), NaN replaced by 0
signal_of(row) ==
    LET s == _scalar_signal(row.signal) IN
    IF isna(s) THEN 0 ELSE s.vals[1]

\* portfolio = Portfolio(cash=initial_capital); last_signal = 0
Init ==
    /\ initial_capital \in CapitalInputs
    /\ portfolio = Portfolio(initial_capital)
    /\ last_signal = 0
    /\ df = <<>>
    /\ pc = "loop"
    /\ final_value = None
    /\ err = "none"
    /\ lastCall = NoCall
    /\ ret = None

\* the loop body with "last_signal = s" after the if/elif, for every row
process_row_tracks_every_signal(row) ==
    /\ pc = "loop"
    /\ df' = Append(df, row)
    /\ LET s == signal_of(row) IN
       IF s = 1 /\ last_signal # 1
       THEN LET r == buy(portfolio, row.close, row.ts) IN
            /\ portfolio' = r.self
            /\ err' = r.raised
            /\ lastCall' = [op |-> "buy", price |-> row.close, date |-> row.ts]
            /\ IF r.raised = "none"
               THEN last_signal' = 1 /\ pc' = "loop"
               ELSE last_signal' = last_signal /\ pc' = "failed"
       ELSE IF s = -1 /\ last_signal # -1
       THEN LET r == sell(portfolio, row.close, row.ts) IN
            /\ portfolio' = r.self
            /\ err' = r.raised
            /\ lastCall' = [op |-> "sell", price |-> row.close, date |-> row.ts]
            /\ IF r.raised = "none"
               THEN last_signal' = -1 /\ pc' = "loop"
               ELSE last_signal' = last_signal /\ pc' = "failed"
       ELSE /\ lastCall' = NoCall
            /\ last_signal' = s
            /\ UNCHANGED <<portfolio, pc, err>>
    /\ UNCHANGED <<initial_capital, final_value, ret>>

\* the loop body without the tests on last_signal
process_row_no_debounce(row) ==
    /\ pc = "loop"
    /\ df' = Append(df, row)
    /\ LET s == signal_of(row) IN
       IF s = 1
       THEN LET r == buy(portfolio, row.close, row.ts) IN
            /\ portfolio' = r.self
            /\ err' = r.raised
            /\ lastCall' = [op |-> "buy", price |-> row.close, date |-> row.ts]
            /\ IF r.raised = "none"
               THEN last_signal' = 1 /\ pc' = "loop"
               ELSE last_signal' = last_signal /\ pc' = "failed"
       ELSE IF s = -1
       THEN LET r == sell(portfolio, row.close, row.ts) IN
            /\ portfolio' = r.self
            /\ err' = r.raised
            /\ lastCall' = [op |-> "sell", price |-> row.close, date |-> row.ts]
            /\ IF r.raised = "none"
               THEN last_signal' = -1 /\ pc' = "loop"
               ELSE last_signal' = last_signal /\ pc' = "failed"
       ELSE /\ lastCall' = NoCall
            /\ UNCHANGED <<portfolio, last_signal, pc, err>>
    /\ UNCHANGED <<initial_capital, final_value, ret>>

\* the loop body with each call wrapped in "try: ... except ValueError: pass"
process_row_swallows_errors(row) ==
    /\ pc = "loop"
    /\ df' = Append(df, row)
    /\ LET s == signal_of(row) IN
       IF s = 1 /\ last_signal # 1
       THEN LET r == buy(portfolio, row.close, row.ts) IN
            /\ portfolio' = r.self
            /\ err' = r.raised
            /\ lastCall' = [op |-> "buy", price |-> row.close, date |-> row.ts]
            /\ IF r.raised = "none"
               THEN last_signal' = 1 /\ pc' = "loop"
               ELSE last_signal' = 1 /\ pc' = "loop"
       ELSE IF s = -1 /\ last_signal # -1
       THEN LET r == sell(portfolio, row.close, row.ts) IN
            /\ portfolio' = r.self
            /\ err' = r.raised
            /\ lastCall' = [op |-> "sell", price |-> row.close, date |-> row.ts]
            /\ IF r.raised = "none"
               THEN last_signal' = -1 /\ pc' = "loop"
               ELSE last_signal' = -1 /\ pc' = "loop"
       ELSE /\ lastCall' = NoCall
            /\ UNCHANGED <<portfolio, last_signal, pc, err>>
    /\ UNCHANGED <<initial_capital, final_value, ret>>

\* the loop body with "else: last_signal = 0" after the elif
process_row_forgets_on_zero(row) ==
    /\ pc = "loop"
    /\ df' = Append(df, row)
    /\ LET s == signal_of(row) IN
       IF s = 1 /\ last_signal # 1
       THEN LET r == buy(portfolio, row.close, row.ts) IN
            /\ portfolio' = r.self
            /\ err' = r.raised
            /\ lastCall' = [op |-> "buy", price |-> row.close, date |-> row.ts]
            /\ IF r.raised = "none"
               THEN last_signal' = 1 /\ pc' = "loop"
               ELSE last_signal' = last_signal /\ pc' = "failed"
       ELSE IF s = -1 /\ last_signal # -1
       THEN LET r == sell(portfolio, row.close, row.ts) IN
            /\ portfolio' = r.self
            /\ err' = r.raised
            /\ lastCall' = [op |-> "sell", price |-> row.close, date |-> row.ts]
            /\ IF r.raised = "none"
               THEN last_signal' = -1 /\ pc' = "loop"
               ELSE last_signal' = last_signal /\ pc' = "failed"
       ELSE /\ lastCall' = NoCall
            /\ last_signal' = 0
            /\ UNCHANGED <<portfolio, pc, err>>
    /\ UNCHANGED <<initial_capital, final_value, ret>>

\* the loop body over "df.reset_index(drop=True)": the date is the row's position
process_row_dates_by_position(row) ==
    /\ pc = "loop"
    /\ df' = Append(df, row)
    /\ LET s == signal_of(row) IN
       IF s = 1 /\ last_signal # 1
       THEN LET r == buy(portfolio, row.close, Len(df) + 1) IN
            /\ portfolio' = r.self
            /\ err' = r.raised
            /\ lastCall' = [op |-> "buy", price |-> row.close, date |-> row.ts]
            /\ IF r.raised = "none"
               THEN last_signal' = 1 /\ pc' = "loop"
               ELSE last_signal' = last_signal /\ pc' = "failed"
       ELSE IF s = -1 /\ last_signal # -1
       THEN LET r == sell(portfolio, row.close, Len(df) + 1) IN
            /\ portfolio' = r.self
            /\ err' = r.raised
            /\ lastCall' = [op |-> "sell", price |-> row.close, date |-> row.ts]
            /\ IF r.raised = "none"
               THEN last_signal' = -1 /\ pc' = "loop"
               ELSE last_signal' = last_signal /\ pc' = "failed"
       ELSE /\ lastCall' = NoCall
            /\ UNCHANGED <<portfolio, last_signal, pc, err>>
    /\ UNCHANGED <<initial_capital, final_value, ret>>

\* the loop body with "elif s == -1:" for the sell branch
process_row_debounces_buys_only(row) ==
    /\ pc = "loop"
    /\ df' = Append(df, row)
    /\ LET s == signal_of(row) IN
       IF s = 1 /\ last_signal # 1
       THEN LET r == buy(portfolio, row.close, row.ts) IN
            /\ portfolio' = r.self
            /\ err' = r.raised
            /\ lastCall' = [op |-> "buy", price |-> row.close, date |-> row.ts]
            /\ IF r.raised = "none"
               THEN last_signal' = 1 /\ pc' = "loop"
               ELSE last_signal' = last_signal /\ pc' = "failed"
       ELSE IF s = -1
       THEN LET r == sell(portfolio, row.close, row.ts) IN
            /\ portfolio' = r.self
            /\ err' = r.raised
            /\ lastCall' = [op |-> "sell", price |-> row.close, date |-> row.ts]
            /\ IF r.raised = "none"
               THEN last_signal' = -1 /\ pc' = "loop"
               ELSE last_signal' = last_signal /\ pc' = "failed"
       ELSE /\ lastCall' = NoCall
            /\ UNCHANGED <<portfolio, last_signal, pc, err>>
    /\ UNCHANGED <<initial_capital, final_value, ret>>

\* the loop body with "price = portfolio._to_scalar(row['Close'])" as its first line
process_row_coerces_every_close(row) ==
    /\ pc = "loop"
    /\ df' = Append(df, row)
    /\ LET s == signal_of(row) IN
       IF s = 1 /\ last_signal # 1
       THEN LET r == buy(portfolio, row.close, row.ts) IN
            /\ portfolio' = r.self
            /\ err' = r.raised
            /\ lastCall' = [op |-> "buy", price |-> row.close, date |-> row.ts]
            /\ IF r.raised = "none"
               THEN last_signal' = 1 /\ pc' = "loop"
               ELSE last_signal' = last_signal /\ pc' = "failed"
       ELSE IF s = -1 /\ last_signal # -1
       THEN LET r == sell(portfolio, row.close, row.ts) IN
            /\ portfolio' = r.self
            /\ err' = r.raised
            /\ lastCall' = [op |-> "sell", price |-> row.close, date |-> row.ts]
            /\ IF r.raised = "none"
               THEN last_signal' = -1 /\ pc' = "loop"
               ELSE last_signal' = last_signal /\ pc' = "failed"
       ELSE /\ lastCall' = NoCall
            /\ err' = _to_scalar(row.close).raised
            /\ pc' = IF _to_scalar(row.close).raised = "none" THEN "loop" ELSE "failed"
            /\ UNCHANGED <<portfolio, last_signal>>
    /\ UNCHANGED <<initial_capital, final_value, ret>>

\* one iteration of "for i, row in df.iterrows()"
process_row(row) ==
    /\ pc = "loop"
    /\ df' = Append(df, row)
    /\ LET s == signal_of(row) IN
       IF s = 1 /\ last_signal # 1
       THEN LET r == buy(portfolio, row.close, row.ts) IN
            /\ portfolio' = r.self
            /\ err' = r.raised
            /\ lastCall' = [op |-> "buy", price |-> row.close, date |-> row.ts]
            /\ IF r.raised = "none"
               THEN last_signal' = 1 /\ pc' = "loop"
               ELSE last_signal' = last_signal /\ pc' = "failed"
       ELSE IF s = -1 /\ last_signal # -1
       THEN LET r == sell(portfolio, row.close, row.ts) IN
            /\ portfolio' = r.self
            /\ err' = r.raised
            /\ lastCall' = [op |-> "sell", price |-> row.close, date |-> row.ts]
            /\ IF r.raised = "none"
               THEN last_signal' = -1 /\ pc' = "loop"
               ELSE last_signal' = last_signal /\ pc' = "failed"
       ELSE /\ lastCall' = NoCall
            /\ UNCHANGED <<portfolio, last_signal, pc, err>>
    /\ UNCHANGED <<initial_capital, final_value, ret>>

\* the final valuation at df["Close"].iloc[0]
finish_first_close ==
    /\ pc = "loop"
    /\ IF df = <<>>
       THEN /\ err' = "IndexError"
            /\ pc' = "failed"
            /\ UNCHANGED <<portfolio, final_value, lastCall, ret>>
       ELSE LET r == value(portfolio, df[1].close) IN
            /\ lastCall' = [op |-> "value", price |-> df[1].close, date |-> NoDate]
            /\ portfolio' = r.self
            /\ ret' = r.ret
            /\ err' = r.raised
            /\ IF r.raised = "none"
               THEN final_value' = r.ret /\ pc' = "done"
               ELSE final_value' = final_value /\ pc' = "failed"
    /\ UNCHANGED <<initial_capital, last_signal, df>>

\* the final valuation falling back to the cash when df has no row
finish_empty_returns_cash ==
    /\ pc = "loop"
    /\ IF df = <<>>
       THEN /\ final_value' = portfolio.cash
            /\ pc' = "done"
            /\ UNCHANGED <<portfolio, err, lastCall, ret>>
       ELSE LET r == value(portfolio, df[Len(df)].close) IN
            /\ lastCall' = [op |-> "value", price |-> df[Len(df)].close, date |-> NoDate]
            /\ portfolio' = r.self
            /\ ret' = r.ret
            /\ err' = r.raised
            /\ IF r.raised = "none"
               THEN final_value' = r.ret /\ pc' = "done"
               ELSE final_value' = final_value /\ pc' = "failed"
    /\ UNCHANGED <<initial_capital, last_signal, df>>

\* the final valuation preceded by a sell of the open position at the last close
finish_closes_position ==
    /\ pc = "loop"
    /\ IF df = <<>>
       THEN /\ err' = "IndexError"
            /\ pc' = "failed"
            /\ UNCHANGED <<portfolio, final_value, lastCall, ret>>
       ELSE LET closed == sell(portfolio, df[Len(df)].close, df[Len(df)].ts)
                r == value(closed.self, df[Len(df)].close)
            IN
            /\ lastCall' = [op |-> "value", price |-> df[Len(df)].close, date |-> NoDate]
            /\ portfolio' = r.self
            /\ ret' = r.ret
            /\ err' = r.raised
            /\ IF r.raised = "none"
               THEN final_value' = r.ret /\ pc' = "done"
               ELSE final_value' = final_value /\ pc' = "failed"
    /\ UNCHANGED <<initial_capital, last_signal, df>>

\* final_value = portfolio.value(df["Close"].iloc[-1]); return portfolio, final_value
finish ==
    /\ pc = "loop"
    /\ IF df = <<>>
       THEN /\ err' = "IndexError"
            /\ pc' = "failed"
            /\ UNCHANGED <<portfolio, final_value, lastCall, ret>>
       ELSE LET r == value(portfolio, df[Len(df)].close) IN
            /\ lastCall' = [op |-> "value", price |-> df[Len(df)].close, date |-> NoDate]
            /\ portfolio' = r.self
            /\ ret' = r.ret
            /\ err' = r.raised
            /\ IF r.raised = "none"
               THEN final_value' = r.ret /\ pc' = "done"
               ELSE final_value' = final_value /\ pc' = "failed"
    /\ UNCHANGED <<initial_capital, last_signal, df>>

\* rows of a DataFrame: index label, Close, Signal
Rows(labels, closes, signals) == [ts : labels, close : closes, signal : signals]

CloseInputs == {Num(F100), Num(F90), Num(F11), Num(Zero), Series(<<F100, F90>>)}

SignalInputs == {Num(1), Num(-1), Num(0), Num(2), NaN}

\* The index of the general run is 1, 2, 3, ...  df may end after any row:
\* the loop either gets one more row or is over.
Next ==
    \/ \E row \in Rows({Len(df) + 1}, CloseInputs, SignalInputs) :
          Len(df) < MaxRows /\ process_row(row)
    \/ finish

Spec == Init /\ [][Next]_vars

\* Longer runs over the bare signals +1, -1, 0 and two positive closes.
RunCloses == {Num(F100), Num(F90)}

RunSignals == {Num(1), Num(-1), Num(0)}

RunNext ==
    \/ \E row \in Rows({Len(df) + 1}, RunCloses, RunSignals) :
          Len(df) < MaxRunRows /\ process_row(row)
    \/ finish

RunSpec == Init /\ [][RunNext]_vars

\* Runs whose Signal cells are scalars, containers, NaN or None.
ShapeCloses == {Num(F100)}

ShapeSignals ==
    {Num(1), Num(-1), NaN, NoneValue,
     Series(<<Num(1)>>), NdArray(<<Num(-1)>>), List(<<Num(1)>>), Series(<<NaN>>),
     Series(<<Num(1), Num(-1)>>), NdArray(<<Num(-1), Num(-1)>>), List(<<Num(1), Num(1)>>),
     List(<<>>)}

ShapeNext ==
    \/ \E row \in Rows({Len(df) + 1}, ShapeCloses, ShapeSignals) :
          Len(df) < MaxRows /\ process_row(row)
    \/ finish

ShapeSpec == Init /\ [][ShapeNext]_vars

\* Runs whose index labels come in any order and may repeat.
LabelInputs == {1, 2}

LabelCloses == {Num(F100), Num(F90)}

LabelSignals == {Num(1), Num(-1), Num(0)}

LabelNext ==
    \/ \E row \in Rows(LabelInputs, LabelCloses, LabelSignals) :
          Len(df) < MaxRows /\ process_row(row)
    \/ finish

LabelSpec == Init /\ [][LabelNext]_vars

\* Runs over the closes 100, 110 and 90.
F110 == FromInt(110)

ScenarioCloses == {Num(F100), Num(F110), Num(F90)}

ScenarioSignals == {Num(1), Num(0), Num(-1)}

ScenarioNext ==
    \/ \E row \in Rows({Len(df) + 1}, ScenarioCloses, ScenarioSignals) :
          Len(df) < MaxRows /\ process_row(row)
    \/ finish

ScenarioSpec == Init /\ [][ScenarioNext]_vars

(***************************************************************************)
(* Vocabulary of the properties.                                           *)
(***************************************************************************)
Coercible(v) == _to_scalar(v).raised = "none"
Scalar(v) == _to_scalar(v).val

\* every fill recorded so far happened at a positive price
PositiveFills ==
    \A k \in 1..Len(portfolio.trade_log) : IsPos(portfolio.trade_log[k][3])

Actions(log) == [k \in 1..Len(log) |-> log[k][2]]

\* BUY, SELL, BUY, ... starting with BUY
Alternates(log) ==
    \A k \in 1..Len(log) : log[k][2] = IF k % 2 = 1 THEN "BUY" ELSE "SELL"

\* this step is one iteration of the row loop
RowStep == Len(df') = Len(df) + 1
NewRow == df'[Len(df')]

(***************************************************************************)
(* C1.  With initial_capital >= 0 and positive prices, in every reachable  *)
(* ledger state exactly one of cash > 0 and position > 0 holds, the only   *)
(* exception being the initial state when initial_capital is zero.         *)
(* Refuted: from zero capital a buy completes (a BUY record is appended)   *)
(* and leaves cash = 0 and position = 0.                                   *)
(***************************************************************************)
C1_ExactlyOnePositive ==
    (initial_capital >= 0 /\ PositiveFills) =>
        \/ IsPos(portfolio.cash) /\ ~IsPos(portfolio.position)
        \/ ~IsPos(portfolio.cash) /\ IsPos(portfolio.position)
        \/ initial_capital = 0 /\ portfolio = Portfolio(initial_capital)

(***************************************************************************)
(* C2.  With initial_capital >= 0 and positive closes, run_backtest emits  *)
(* a BUY record only on a FLAT->LONG transition and a SELL record only on  *)
(* a LONG->FLAT transition, one record per transition, so the trade log    *)
(* alternates BUY, SELL, BUY, ... starting with BUY.                       *)
(* Refuted: from zero capital every +1 after a -1 appends another BUY      *)
(* while the ledger stays flat.                                            *)
(***************************************************************************)
C2_step ==
    LET log == portfolio.trade_log
        log2 == portfolio'.trade_log
    IN  (initial_capital >= 0 /\ PositiveFills') =>
            /\ Len(log2) <= Len(log) + 1
            /\ \A k \in 1..Len(log) : log2[k] = log[k]
            /\ Len(log2) = Len(log) + 1 =>
                  IF log2[Len(log2)][2] = "BUY"
                  THEN IsZero(portfolio.position) /\ IsPos(portfolio'.position)
                  ELSE IsPos(portfolio.position) /\ IsZero(portfolio'.position)
            /\ Len(log2) = Len(log) =>
                  (IsPos(portfolio.position) <=> IsPos(portfolio'.position))
            /\ Alternates(log2)

C2_AlternatingLog == [][C2_step]_vars

(***************************************************************************)
(* C3.  For each row, with s the normalized signal: s = +1 and             *)
(* last_signal # +1 calls buy(close, timestamp) and then sets last_signal  *)
(* to +1; s = -1 and last_signal # -1 calls sell(close, timestamp) and     *)
(* then sets last_signal to -1; every other case calls no ledger operation *)
(* and leaves last_signal (and the ledger) unchanged.  A call that raises  *)
(* ends the run before the assignment.                                     *)
(***************************************************************************)
C3_step ==
    RowStep =>
        LET row == NewRow
            s == signal_of(row)
        IN  IF s = 1 /\ last_signal # 1
            THEN /\ lastCall' = [op |-> "buy", price |-> row.close, date |-> row.ts]
                 /\ portfolio' = buy(portfolio, row.close, row.ts).self
                 /\ err' = buy(portfolio, row.close, row.ts).raised
                 /\ IF err' = "none"
                    THEN last_signal' = 1 /\ pc' = "loop"
                    ELSE pc' = "failed"
            ELSE IF s = -1 /\ last_signal # -1
            THEN /\ lastCall' = [op |-> "sell", price |-> row.close, date |-> row.ts]
                 /\ portfolio' = sell(portfolio, row.close, row.ts).self
                 /\ err' = sell(portfolio, row.close, row.ts).raised
                 /\ IF err' = "none"
                    THEN last_signal' = -1 /\ pc' = "loop"
                    ELSE pc' = "failed"
            ELSE /\ lastCall' = NoCall
                 /\ last_signal' = last_signal
                 /\ portfolio' = portfolio
                 /\ pc' = "loop"

C3_TransitionRule == [][C3_step]_vars

\* a buy row, a sell row and a row that does nothing have been processed
C3_Witness ==
    /\ pc = "loop"
    /\ Len(df) = 3
    /\ Actions(portfolio.trade_log) = <<"BUY", "SELL">>
    /\ last_signal = -1
    /\ lastCall = NoCall
    /\ signal_of(df[3]) = -1

(***************************************************************************)
(* C4.  Debouncing: a run of identical consecutive signals, of any length  *)
(* and also when interleaved with 0 signals, produces at most one trade    *)
(* record; the signals +1, +1, +1, -1, -1 with positive capital and prices *)
(* produce exactly one BUY followed by exactly one SELL.  (The index of    *)
(* these runs is 1, 2, 3, ..., so a record's date names the row that       *)
(* produced it.)                                                           *)
(***************************************************************************)
Signals == [k \in 1..Len(df) |-> signal_of(df[k])]

RecordsOfRows(i, j) ==
    {k \in 1..Len(portfolio.trade_log) : portfolio.trade_log[k][1] \in i..j}

C4_Debounce ==
    /\ \A i \in 1..Len(df) : \A j \in i..Len(df) :
          (\E v \in {1, -1} : \A k \in i..j : Signals[k] \in {0, v})
              => Cardinality(RecordsOfRows(i, j)) <= 1
    /\ ( /\ initial_capital > 0
         /\ \A k \in 1..Len(df) : Coercible(df[k].close) /\ IsPos(Scalar(df[k].close))
         /\ Signals = <<1, 1, 1, -1, -1>> )
       => /\ Actions(portfolio.trade_log) = <<"BUY", "SELL">>
          /\ portfolio.trade_log[1][1] = 1
          /\ portfolio.trade_log[2][1] = 4

C4_Witness ==
    /\ pc = "done"
    /\ initial_capital > 0
    /\ Signals = <<1, 1, 1, -1, -1>>
    /\ Actions(portfolio.trade_log) = <<"BUY", "SELL">>

(***************************************************************************)
(* C5.  buy(price, timestamp) called while flat (position == 0) with a     *)
(* coercible positive price p sets position to (old cash) / p, sets cash   *)
(* to 0 and appends exactly one record (timestamp, BUY, p), p the coerced  *)
(* price.                                                                  *)
(***************************************************************************)
C5_step ==
    LET price == lastCall'.price
        p == Scalar(price)
    IN  ( /\ lastCall'.op = "buy"
          /\ IsZero(portfolio.position)
          /\ Coercible(price)
          /\ IsPos(p) )
        => /\ err' = "none"
           /\ portfolio'.position = FDiv(portfolio.cash, p)
           /\ portfolio'.cash = Zero
           /\ portfolio'.trade_log =
                 Append(portfolio.trade_log, <<lastCall'.date, "BUY", p>>)

C5_BuyWhileFlat == [][C5_step]_vars

\* a buy from positive cash at a price handed in as a length-1 Series
C5_Witness ==
    /\ lastCall.op = "buy"
    /\ lastCall.price = Series(<<F100>>)
    /\ err = "none"
    /\ portfolio.trade_log = << <<lastCall.date, "BUY", F100>> >>
    /\ IsPos(portfolio.position)
    /\ IsZero(portfolio.cash)

(***************************************************************************)
(* C6.  sell(price, timestamp) called while holding (position > 0) with a  *)
(* coercible price p sets cash to (old position) * p, sets position to 0   *)
(* and appends exactly one record (timestamp, SELL, p).                    *)
(***************************************************************************)
C6_step ==
    LET price == lastCall'.price
        p == Scalar(price)
    IN  ( /\ lastCall'.op = "sell"
          /\ IsPos(portfolio.position)
          /\ Coercible(price) )
        => /\ err' = "none"
           /\ portfolio'.cash = FMul(portfolio.position, p)
           /\ portfolio'.position = Zero
           /\ portfolio'.trade_log =
                 Append(portfolio.trade_log, <<lastCall'.date, "SELL", p>>)

C6_SellWhileHolding == [][C6_step]_vars

\* bought at 100, sold at 90: a SELL record and the proceeds in cash
C6_Witness ==
    /\ lastCall.op = "sell"
    /\ err = "none"
    /\ Actions(portfolio.trade_log) = <<"BUY", "SELL">>
    /\ portfolio.trade_log[1][3] = F100
    /\ portfolio.trade_log[2][3] = F90
    /\ IsPos(portfolio.cash)
    /\ portfolio.cash # FromInt(initial_capital)
    /\ IsZero(portfolio.position)

(***************************************************************************)
(* C7.  buy called while already holding a position (position > 0) is a    *)
(* no-op: cash, position and trade_log are unchanged, and it never raises. *)
(* Refuted as stated: the price is coerced before the position is looked   *)
(* at, so a buy while holding with an uncoercible price raises ValueError. *)
(***************************************************************************)
C7_step_original ==
    (lastCall'.op = "buy" /\ IsPos(portfolio.position))
        => portfolio' = portfolio /\ err' = "none"

C7_NoOpBuyNeverRaises == [][C7_step_original]_vars

(***************************************************************************)
(* C7 as amended.  buy called while already holding a position leaves      *)
(* cash, position and trade_log unchanged; it returns without raising when *)
(* its price is coercible and raises ValueError when it is not.            *)
(***************************************************************************)
C7_step ==
    (lastCall'.op = "buy" /\ IsPos(portfolio.position))
        => /\ portfolio' = portfolio
           /\ err' = IF Coercible(lastCall'.price) THEN "none" ELSE "ValueError"

C7_BuyWhileHolding == [][C7_step]_vars

\* a second buy, at another price and date, that returned and changed nothing
C7_Witness ==
    /\ lastCall = [op |-> "buy", price |-> Num(F90), date |-> 2]
    /\ err = "none"
    /\ portfolio.trade_log = << <<1, "BUY", F100>> >>
    /\ IsPos(portfolio.position)

(***************************************************************************)
(* C8.  sell called while flat (position == 0) leaves cash, position and   *)
(* trade_log unchanged; in the driver a -1 signal arriving while the       *)
(* ledger is flat (a leading -1, or a -1 when last_signal is already -1)   *)
(* never appends a SELL record and does not prevent a later +1 signal from *)
(* buying.                                                                 *)
(***************************************************************************)
C8_step ==
    RowStep =>
        LET row == NewRow
            s == signal_of(row)
            flat == IsZero(portfolio.position)
        IN  /\ (lastCall'.op = "sell" /\ flat) => portfolio' = portfolio
            /\ (s = -1 /\ flat) => portfolio'.trade_log = portfolio.trade_log
            /\ ( /\ s = 1
                 /\ flat
                 /\ last_signal = -1
                 /\ Coercible(row.close)
                 /\ ~IsZero(Scalar(row.close)) )
               => /\ portfolio'.trade_log =
                        Append(portfolio.trade_log, <<row.ts, "BUY", Scalar(row.close)>>)
                  /\ last_signal' = 1

C8_SellWhileFlat == [][C8_step]_vars

\* two -1 rows on a flat ledger, then a +1 row that buys
C8_Witness ==
    /\ Len(df) = 3
    /\ Signals = <<-1, -1, 1>>
    /\ initial_capital > 0
    /\ Actions(portfolio.trade_log) = <<"BUY">>
    /\ portfolio.trade_log[1][1] = 3
    /\ IsPos(portfolio.position)

(***************************************************************************)
(* C9.  value(price) returns cash + position * price for the coerced price *)
(* and is pure: it leaves cash, position and trade_log unchanged.          *)
(***************************************************************************)
C9_step ==
    lastCall'.op = "value"
        => /\ portfolio' = portfolio
           /\ Coercible(lastCall'.price)
                 => /\ err' = "none"
                    /\ ret' = FAdd(portfolio.cash,
                                   FMul(portfolio.position, Scalar(lastCall'.price)))

C9_ValuePure == [][C9_step]_vars

\* an open position bought at 100 and valued at 90
C9_Witness ==
    /\ lastCall.op = "value"
    /\ lastCall.price = NdArray(<<F90>>)
    /\ err = "none"
    /\ portfolio.trade_log = << <<1, "BUY", F100>> >>
    /\ ret = FMul(portfolio.position, F90)
    /\ ret # FromInt(initial_capital)
    /\ IsPos(ret)

(***************************************************************************)
(* C10.  After a run over a non-empty row sequence completes, final_value  *)
(* equals ledger.cash + ledger.position * (close of the last row).         *)
(***************************************************************************)
C10_FinalValue ==
    pc = "done" =>
        /\ Len(df) >= 1
        /\ Coercible(df[Len(df)].close)
        /\ final_value = FAdd(portfolio.cash,
                              FMul(portfolio.position, Scalar(df[Len(df)].close)))

\* a run that ends holding a position bought at another close than the last
C10_Witness ==
    /\ pc = "done"
    /\ Len(df) = 3
    /\ IsPos(portfolio.position)
    /\ portfolio.trade_log[Len(portfolio.trade_log)][3] # Scalar(df[3].close)
    /\ df[1].close # df[3].close
    /\ final_value # FromInt(initial_capital)

(***************************************************************************)
(* C11.  For a non-empty row sequence whose signals are all 0 and any      *)
(* initial_capital >= 0, run_backtest returns a ledger with an empty trade *)
(* log and final_value == initial_capital, whatever the (scalar) closes.   *)
(***************************************************************************)
AllSignalsZero == \A k \in 1..Len(df) : df[k].signal = Num(0)

C12_NeverShort ==
    initial_capital >= 0
        => ~IsNeg(portfolio.cash) /\ ~IsNeg(portfolio.position)

(***************************************************************************)
(* C13.  A negative initial_capital is rejected at construction: no row is *)
(* processed, no trade record is appended and no value is returned.        *)
(* Refuted: the constructor stores float(cash) unchecked and the run goes  *)
(* on with a negative cash balance.                                        *)
(***************************************************************************)
C13_NegativeCapitalRejected ==
    initial_capital < 0
        => /\ df = <<>>
           /\ portfolio.trade_log = <<>>
           /\ pc # "done"

(***************************************************************************)
(* C14.  run_backtest with zero rows fails with an error instead of        *)
(* returning a (ledger, final_value) pair, and no trade record has been    *)
(* appended when it fails.                                                 *)
(***************************************************************************)
C14_EmptyInput ==
    (df = <<>> /\ pc # "loop")
        => /\ pc = "failed"
           /\ err = "IndexError"
           /\ final_value = None
           /\ portfolio.trade_log = <<>>

C14_Witness == df = <<>> /\ pc = "failed" /\ err = "IndexError"

(***************************************************************************)
(* C15.  buy, sell and value each reject a multi-element price container   *)
(* with ValueError, and the rejected call leaves cash, position and        *)
(* trade_log exactly as they were (value returns nothing).                 *)
(***************************************************************************)
MultiElement(v) == v.kind \in {"Series", "ndarray", "list"} /\ Len(v.vals) > 1

C15_step ==
    (lastCall'.op \in {"buy", "sell", "value"} /\ MultiElement(lastCall'.price))
        => /\ err' = "ValueError"
           /\ portfolio' = portfolio
           /\ lastCall'.op = "value" => ret' = None

C15_RejectMultiElement == [][C15_step]_vars

\* a sell of an open position rejected for its two-element array
C15_Witness ==
    /\ lastCall = [op |-> "sell", price |-> NdArray(<<F90, F11>>), date |-> 2]
    /\ err = "ValueError"
    /\ portfolio.trade_log = << <<1, "BUY", F100>> >>
    /\ IsPos(portfolio.position)
    /\ IsZero(portfolio.cash)

(***************************************************************************)
(* C16.  A price-coercion failure at an attempted transition aborts the    *)
(* run at that row: no later row is processed, no final value is produced, *)
(* and the ledger's trade_log, cash and position stay those produced by    *)
(* the rows before the failing row.                                        *)
(***************************************************************************)
Attempted(row) ==
    \/ signal_of(row) = 1 /\ last_signal # 1
    \/ signal_of(row) = -1 /\ last_signal # -1

C16_step ==
    /\ (RowStep /\ Attempted(NewRow) /\ ~Coercible(NewRow.close))
          => /\ pc' = "failed"
             /\ err' = "ValueError"
             /\ portfolio' = portfolio
             /\ final_value' = None
    /\ pc = "failed" => UNCHANGED vars

C16_AbortWithoutRollback == [][C16_step]_vars

\* a BUY and a SELL were recorded before the third row's close was rejected
C16_Witness ==
    /\ pc = "failed"
    /\ err = "ValueError"
    /\ Len(df) = 3
    /\ ~Coercible(df[3].close)
    /\ portfolio.trade_log = << <<1, "BUY", F100>>, <<2, "SELL", F90>> >>
    /\ IsPos(portfolio.cash)
    /\ final_value = None

(***************************************************************************)
(* C17.  Signal normalization: a length-1 container is unwrapped to its    *)
(* element and then acts like the bare scalar; a multi-element or empty    *)
(* container and a NaN / missing signal are each treated as 0: no ledger   *)
(* call, no change of last_signal and no error.                            *)
(***************************************************************************)
Normalized(sig) ==
    IF sig.kind = "number" THEN sig.vals[1]
    ELSE IF sig.kind \in {"Series", "ndarray", "list"} /\ Len(sig.vals) = 1
    THEN IF sig.vals[1].kind = "number" THEN sig.vals[1].vals[1] ELSE 0
    ELSE 0

C17_step ==
    RowStep =>
        LET row == NewRow
            u == Normalized(row.signal)
        IN  IF u = 1 /\ last_signal # 1
            THEN /\ lastCall' = [op |-> "buy", price |-> row.close, date |-> row.ts]
                 /\ portfolio' = buy(portfolio, row.close, row.ts).self
                 /\ last_signal' = 1
            ELSE IF u = -1 /\ last_signal # -1
            THEN /\ lastCall' = [op |-> "sell", price |-> row.close, date |-> row.ts]
                 /\ portfolio' = sell(portfolio, row.close, row.ts).self
                 /\ last_signal' = -1
            ELSE /\ lastCall' = NoCall
                 /\ last_signal' = last_signal
                 /\ portfolio' = portfolio
                 /\ err' = "none"
                 /\ pc' = "loop"

C17_SignalNormalization == [][C17_step]_vars

\* a wrapped +1 bought, a two-element list did nothing, a wrapped -1 sold,
\* and a missing signal did nothing
C17_Witness ==
    /\ pc = "loop"
    /\ Len(df) = 3
    /\ df[1].signal = Series(<<Num(1)>>)
    /\ df[2].signal = List(<<Num(1), Num(1)>>)
    /\ df[3].signal = NdArray(<<Num(-1)>>)
    /\ Actions(portfolio.trade_log) = <<"BUY", "SELL">>
    /\ portfolio.trade_log[2][1] = 3
    /\ last_signal = -1
    /\ err = "none"

(***************************************************************************)
(* C18.  Coercion round-trip: in every ledger state and for each of buy,   *)
(* sell and value, a single-element numeric container passed as price      *)
(* produces the same cash, position, trade_log and return value as the     *)
(* bare scalar it contains.                                                *)
(* Refuted: a one-element list is rejected with ValueError.                *)
(***************************************************************************)
SingleElement(v) == v.kind \in {"Series", "ndarray", "list"} /\ Len(v.vals) = 1

C18_CoercionRoundTrip ==
    \A c \in {v \in PriceInputs : SingleElement(v)} :
        /\ value(portfolio, c) = value(portfolio, Num(c.vals[1]))
        /\ \A date \in DateInputs :
              /\ buy(portfolio, c, date) = buy(portfolio, Num(c.vals[1]), date)
              /\ sell(portfolio, c, date) = sell(portfolio, Num(c.vals[1]), date)

(***************************************************************************)
(* C19.  last_signal starts at 0, always lies in {+1, -1, 0}, and on any   *)
(* row that appends no trade record (the ledger operation was not called   *)
(* or was a no-op) it keeps its previous value.                            *)
(* Refuted as stated, also for a capital >= 0: a sell that is a no-op      *)
(* still sets last_signal to -1.                                           *)
(***************************************************************************)
C19_step_original ==
    initial_capital >= 0
        => /\ df = <<>> => last_signal = 0
           /\ last_signal' \in {1, -1, 0}
           /\ (RowStep /\ portfolio'.trade_log = portfolio.trade_log)
                 => last_signal' = last_signal

C19_UpdatedOnlyOnTrade == [][C19_step_original]_vars

(***************************************************************************)
(* C19 as amended.  last_signal starts at 0, always lies in {+1, -1, 0},   *)
(* and changes only on a row whose normalized signal is +1 or -1, differs  *)
(* from last_signal, and whose buy or sell call returns; it then takes the *)
(* signal's value, also when the call was a no-op that appended nothing.   *)
(***************************************************************************)
C19_step ==
    /\ df = <<>> => last_signal = 0
    /\ last_signal' \in {1, -1, 0}
    /\ last_signal' # last_signal
          => /\ RowStep
             /\ signal_of(NewRow) \in {1, -1}
             /\ last_signal' = signal_of(NewRow)
             /\ lastCall'.op = (IF last_signal' = 1 THEN "buy" ELSE "sell")
             /\ err' = "none"
    /\ (RowStep /\ Attempted(NewRow) /\ err' = "none")
          => last_signal' = signal_of(NewRow)

C19_UpdatedOnReturnedCall == [][C19_step]_vars

\* a leading -1: the sell appended nothing and last_signal is -1
C19_Witness ==
    /\ Len(df) = 1
    /\ signal_of(df[1]) = -1
    /\ lastCall.op = "sell"
    /\ err = "none"
    /\ portfolio = Portfolio(initial_capital)
    /\ initial_capital > 0
    /\ last_signal = -1

(***************************************************************************)
(* C20.  The trade log is append-only: across every step of a run (each    *)
(* buy, sell, value call and each processed row) the log before the step   *)
(* is a prefix of the log after it, it grows by at most one record per     *)
(* row, and the final valuation leaves it as it is.                        *)
(***************************************************************************)
C20_step ==
    LET old == portfolio.trade_log
        new == portfolio'.trade_log
    IN  /\ Len(new) \in {Len(old), Len(old) + 1}
        /\ SubSeq(new, 1, Len(old)) = old
        /\ ~RowStep => new = old
        /\ lastCall'.op \notin {"buy", "sell"} => new = old

C20_AppendOnly == [][C20_step]_vars

\* a completed run that bought, sold and bought again
C20_Witness ==
    /\ pc = "done"
    /\ Actions(portfolio.trade_log) = <<"BUY", "SELL", "BUY">>
    /\ lastCall.op = "value"
    /\ IsPos(portfolio.position)

(***************************************************************************)
(* C21.  run_backtest consumes the rows in the given order, without        *)
(* sorting or deduplicating: every trade record's timestamp and fill price *)
(* are the index label and close of one input row, and the records appear  *)
(* in the log in the same relative order as those rows appear in the       *)
(* input, also when timestamps are out of order or repeated.               *)
(***************************************************************************)
\* the strictly increasing maps from n records to the rows seen so far
Embeddings(n) ==
    {f \in [1..n -> 1..Len(df)] : \A a, b \in 1..n : a < b => f[a] < f[b]}

C21_RecordsFollowRows ==
    LET log == portfolio.trade_log IN
    \E f \in Embeddings(Len(log)) :
        \A k \in 1..Len(log) :
            /\ log[k][1] = df[f[k]].ts
            /\ log[k][3] = Scalar(df[f[k]].close)

\* three rows labelled 2, 1, 2 each traded, in that order
C21_Witness ==
    /\ pc = "done"
    /\ Len(df) = 3
    /\ df[1].ts = 2 /\ df[2].ts = 1 /\ df[3].ts = 2
    /\ portfolio.trade_log =
          << <<2, "BUY", F100>>, <<1, "SELL", F90>>, <<2, "BUY", F90>> >>

(***************************************************************************)
(* C22.  With initial capital 100000 and the rows (t1, 100, +1),           *)
(* (t2, 110, 0), (t3, 90, -1), run_backtest yields the trade log           *)
(* [(t1, BUY, 100), (t3, SELL, 90)] and the final value 90000; the 0       *)
(* signal at price 110 changes nothing.                                    *)
(***************************************************************************)
ScenarioRows ==
    << [ts |-> 1, close |-> Num(F100), signal |-> Num(1)],
       [ts |-> 2, close |-> Num(F110), signal |-> Num(0)],
       [ts |-> 3, close |-> Num(F90), signal |-> Num(-1)] >>

InScenario ==
    /\ initial_capital = 100000
    /\ Len(df) \in 1..Len(ScenarioRows)
    /\ df = SubSeq(ScenarioRows, 1, Len(df))

C22_Scenario ==
    InScenario =>
        /\ Len(df) \in {1, 2}
              => /\ portfolio.trade_log = << <<1, "BUY", F100>> >>
                 /\ portfolio.cash = Zero
                 /\ portfolio.position = FromInt(1000)
        /\ Len(df) = 3
              => /\ portfolio.trade_log = << <<1, "BUY", F100>>, <<3, "SELL", F90>> >>
                 /\ portfolio.cash = FromInt(90000)
                 /\ portfolio.position = Zero
                 /\ pc # "failed"
                 /\ pc = "done" => final_value = FromInt(90000)

\* the scenario has run to its end
C22_Witness ==
    /\ InScenario
    /\ Len(df) = 3
    /\ pc = "done"
    /\ final_value = FromInt(90000)
    /\ Len(portfolio.trade_log) = 2

(***************************************************************************)
(* C23.  A position open after the last row is never force-closed: the     *)
(* driver appends no SELL at the end of a run, the returned ledger still   *)
(* has position > 0 with a BUY as its last trade record, and final_value   *)
(* values that position at the last close; the single row (t1, 100, +1)    *)
(* with capital 100000 gives the log [(t1, BUY, 100)], final value 100000  *)
(* and a ledger that is long.                                              *)
(***************************************************************************)
C23_step ==
    /\ (pc = "loop" /\ pc' = "done")
          => /\ portfolio' = portfolio
             /\ IsPos(portfolio.position)
                   => /\ IsPos(portfolio'.position)
                      /\ portfolio'.trade_log # <<>>
                      /\ portfolio'.trade_log[Len(portfolio'.trade_log)][2] = "BUY"
                      /\ final_value' =
                            FAdd(portfolio.cash,
                                 FMul(portfolio.position, Scalar(df[Len(df)].close)))
    /\ (/\ pc' = "done"
        /\ initial_capital = 100000
        /\ df' = << [ts |-> 1, close |-> Num(F100), signal |-> Num(1)] >>)
          => /\ portfolio'.trade_log = << <<1, "BUY", F100>> >>
             /\ final_value' = FromInt(100000)
             /\ IsPos(portfolio'.position)

C23_NoForcedClose == [][C23_step]_vars

\* a run that ends long: bought at 100, last close 90, worth 90000
C23_Witness ==
    /\ pc = "done"
    /\ initial_capital = 100000
    /\ Len(df) = 2
    /\ df[2].close = Num(F90)
    /\ portfolio.trade_log = << <<1, "BUY", F100>> >>
    /\ IsPos(portfolio.position)
    /\ IsZero(portfolio.cash)
    /\ final_value = FromInt(90000)

(***************************************************************************)
(* C24.  Fills are frictionless: for every ledger state and every positive *)
(* price p, value(p) is the same immediately before and immediately after  *)
(* buy(p, t), and the same immediately before and immediately after        *)
(* sell(p, t).                                                             *)
(* Refuted: (cash / p) * p is rounded twice and need not give cash back.   *)
(***************************************************************************)
PositivePrices == {v \in PriceInputs : v.kind = "number" /\ IsPos(v.vals[1])}

C24_Frictionless ==
    initial_capital >= 0
        => \A p \in PositivePrices, date \in DateInputs :
              /\ value(buy(portfolio, p, date).self, p).ret = value(portfolio, p).ret
              /\ value(sell(portfolio, p, date).self, p).ret = value(portfolio, p).ret

(***************************************************************************)
(* C25.  Driver/ledger coupling: in a run with initial_capital > 0 and     *)
(* positive close prices, after every processed row position > 0 if and    *)
(* only if last_signal == +1; so every buy the driver issues executes, and *)
(* the only driver-issued calls that can be no-ops are sells issued while  *)
(* flat with last_signal == 0.                                             *)
(***************************************************************************)
C25_step ==
    initial_capital > 0
        => /\ IsPos(portfolio.position) <=> last_signal = 1
           /\ IsPos(portfolio'.position) <=> last_signal' = 1
           /\ (RowStep /\ lastCall'.op = "buy")
                 => portfolio'.trade_log =
                       Append(portfolio.trade_log,
                              <<NewRow.ts, "BUY", Scalar(NewRow.close)>>)
           /\ (RowStep /\ lastCall'.op \in {"buy", "sell"} /\ portfolio' = portfolio)
                 => /\ lastCall'.op = "sell"
                    /\ IsZero(portfolio.position)
                    /\ last_signal = 0

C25_Coupling == [][C25_step]_vars

\* a sell absorbed at the start, then a buy, a sell and a buy that all executed
C25_Witness ==
    /\ initial_capital > 0
    /\ Len(df) = 4
    /\ Signals = <<-1, 1, -1, 1>>
    /\ Actions(portfolio.trade_log) = <<"BUY", "SELL", "BUY">>
    /\ last_signal = 1
    /\ IsPos(portfolio.position)

(***************************************************************************)
(* C26.  Closed form of the result: for a completed run with               *)
(* initial_capital > 0 and positive prices whose trade log is BUY b1,      *)
(* SELL s1, ..., BUY bk, SELL sk [, BUY b(k+1)], final_value equals        *)
(* initial_capital * (s1/b1) * ... * (sk/bk) when the run ends flat, and   *)
(* that product times (last_close / b(k+1)) when the run ends long.        *)
(* Refuted: the ledger divides and multiplies in turn, rounding each time, *)
(* and a round trip bought and sold at one price already loses the         *)
(* capital's last bit (the rounding of C24).                               *)
(***************************************************************************)
PositiveCloses ==
    \A k \in 1..Len(df) : df[k].close.kind = "number" /\ IsPos(df[k].close.vals[1])

RECURSIVE RoundTrips(_, _, _)
\* acc * (s/b) for every BUY b, SELL s pair of log from record k on
RoundTrips(log, k, acc) ==
    IF k + 1 > Len(log) THEN acc
    ELSE RoundTrips(log, k + 2, FMul(acc, FDiv(log[k + 1][3], log[k][3])))

ClosedForm ==
    LET log == portfolio.trade_log
        flat == RoundTrips(log, 1, FromInt(initial_capital))
    IN  IF Len(log) % 2 = 0 THEN flat
        ELSE FMul(flat, FDiv(Scalar(df[Len(df)].close), log[Len(log)][3]))

C26_ClosedForm ==
    (pc = "done" /\ initial_capital > 0 /\ PositiveCloses)
        => final_value = ClosedForm

(***************************************************************************)
(* C27.  In buy and sell the price is coerced before the position guard is *)
(* evaluated: a buy issued while already holding, or a sell issued while   *)
(* flat, with a price that cannot be coerced raises ValueError instead of  *)
(* being a silent no-op, and leaves cash, position and trade_log           *)
(* unchanged.                                                              *)
(***************************************************************************)
C27_step ==
    (/\ ~Coercible(lastCall'.price)
     /\ \/ lastCall'.op = "buy" /\ IsPos(portfolio.position)
        \/ lastCall'.op = "sell" /\ IsZero(portfolio.position))
        => err' = "ValueError" /\ portfolio' = portfolio

C27_CoercionPrecedesGuard == [][C27_step]_vars

\* flat again after a BUY and a SELL, a sell of an empty array was rejected
C27_Witness ==
    /\ lastCall.op = "sell"
    /\ lastCall.price = NdArray(<<>>)
    /\ err = "ValueError"
    /\ Actions(portfolio.trade_log) = <<"BUY", "SELL">>
    /\ IsZero(portfolio.position)

(***************************************************************************)
(* C28.  The driver coerces a row's close only when that row triggers a    *)
(* buy or sell call, and once more for the final row's valuation: an       *)
(* uncoercible close on a non-final row whose signal is 0, NaN or          *)
(* debounced does not abort the run, whereas an uncoercible close on the   *)
(* final row always makes the run fail, even if no trade was ever          *)
(* attempted.                                                              *)
(***************************************************************************)
C28_step ==
    /\ (RowStep /\ ~Attempted(NewRow))
          => /\ pc' = "loop"
             /\ err' = "none"
             /\ lastCall' = NoCall
             /\ portfolio' = portfolio
    /\ (~RowStep /\ df # <<>> /\ ~Coercible(df[Len(df)].close))
          => /\ pc' = "failed"
             /\ err' = "ValueError"
             /\ final_value' = None
    /\ pc' = "done" => Coercible(df'[Len(df')].close)

C28_CloseCoercedOnDemand == [][C28_step]_vars

\* a debounced +1 row with a two-element close was passed over and the run
\* completed on a later row
C28_Witness ==
    /\ pc = "done"
    /\ Len(df) = 3
    /\ signal_of(df[2]) = 1
    /\ ~Coercible(df[2].close)
    /\ signal_of(df[3]) = 0
    /\ portfolio.trade_log = << <<1, "BUY", F100>> >>
    /\ last_signal = 1

====
